---- MODULE Spec2Model ----
(***************************************************************************)
(* pyfacedetect.py: OcvDetector / FaceDetect and the command-line entry    *)
(* point, as a state machine over one FaceDetect instance.                 *)
(*                                                                         *)
(* The instance is modelled by its attribute dictionary: attrs is the set  *)
(* of attribute names that exist on the object (Python raises              *)
(* AttributeError when an absent one is read), the other variables hold    *)
(* the attribute values.  The OpenCV calls are external: what the capture  *)
(* device, the file loader and the cascade classifiers return is an input  *)
(* of the action, and the calls the program makes on the library are       *)
(* recorded, in order, in events.                                          *)
(***************************************************************************)
EXTENDS Integers, Sequences, FiniteSets

VARIABLES
    attrs,          \* names of the attributes set on the instance
    image,          \* self.image
    image_scale,    \* self.image_scale
    _faces,         \* self._faces
    is_overlayed,   \* self.is_overlayed
    capture,        \* self.capture (TRUE: a capture handle is held)
    call,           \* the last call made on the instance, with its inputs
    pre,            \* the instance as it was when that call started
    events,         \* the OpenCV / console calls made during that call
    exc,            \* the exception that call raised, "none" if it returned
    ret             \* what that call returned

vars == <<attrs, image, image_scale, _faces, is_overlayed, capture,
          call, pre, events, exc, ret>>

----------------------------------------------------------------------------
(* Bounds and input domains *)

\* longest list one cascade returns in one HaarDetectObjects call
MaxMatches == 1


\* raw classifier rectangles ((x, y, w, h), n), in scaled-image coordinates
RawRects == { <<<<10, 5, 40, 40>>, 3>>, <<<<100, 60, 20, 20>>, 4>> }

RECURSIVE SeqsUpTo(_, _)
SeqsUpTo(S, n) ==
    IF n = 0 THEN { <<>> }
    ELSE LET shorter == SeqsUpTo(S, n - 1)
         IN  shorter \cup { Append(s, e) : s \in shorter, e \in S }

\* what one cascade may return for one image
Matches == SeqsUpTo(RawRects, MaxMatches)

\* a cascade that is not run returns nothing
ProfileMatches(runs) == IF runs THEN Matches ELSE { <<>> }
FrontalMatches(runs) == IF runs THEN Matches ELSE { <<>> }

None == [kind |-> "None"]
IplImage(w, h) == [kind |-> "IplImage", width |-> w, height |-> h]

\* the images that can be loaded: within the 1000 px limit, above it with a
\* larger side that is not a multiple of 1000 (wide and tall), and above it
\* with a larger side that is
Images == { IplImage(640, 480), IplImage(1500, 1000), IplImage(1000, 1999),
            IplImage(2000, 1000) }

\* rgb_border and width arguments of overlay_image; the first is the default
DefaultBorder == <<255, 0, 0>>
DefaultWidth == 2
OverlayArgs == { <<DefaultBorder, DefaultWidth>>, <<<<0, 255, 0>>, 5>> }

----------------------------------------------------------------------------
(* Module constants *)

\* default of detect_faces' include_profile_faces argument
SCAN_FOR_PROFILES == FALSE

----------------------------------------------------------------------------
(* The instance as a record, and the outcome of a call *)

Self == [attrs |-> attrs, image |-> image, image_scale |-> image_scale,
         _faces |-> _faces, is_overlayed |-> is_overlayed,
         capture |-> capture]

HasAttr(self, a) == a \in self.attrs

SetAttr(self, a, v) == [self EXCEPT !.attrs = @ \cup {a}, ![a] = v]

Return(self, evs, value) ==
    [self |-> self, events |-> evs, exc |-> "none", ret |-> value]

Raise(self, evs, e) ==
    [self |-> self, events |-> evs, exc |-> e, ret |-> None]

\* FaceDetect.__init__: only is_overlayed is set; image, image_scale,
\* _faces and capture do not exist yet
NewFaceDetect ==
    [attrs |-> {"is_overlayed"}, image |-> None, image_scale |-> 0,
     _faces |-> <<>>, is_overlayed |-> FALSE, capture |-> FALSE]

----------------------------------------------------------------------------
(* OcvDetector *)

\* the scale load_image computes; / on two Python 2 ints is floor division
ScaleFor(width, height) ==
    IF width > 1000 \/ height > 1000
    THEN IF width > height THEN width \div 1000 ELSE height \div 1000
    ELSE 1

\* load_image as it would be if it also cleared the overlay flag
load_image_ResetsOverlayed(self, img) ==
    LET s1 == SetAttr(SetAttr(self, "image", img), "is_overlayed", FALSE)
    IN  IF img = None
        THEN Raise(s1, <<>>, "AttributeError")
        ELSE Return(SetAttr(s1, "image_scale",
                            ScaleFor(img.width, img.height)), <<>>, None)

load_image(self, img) ==
    LET s1 == SetAttr(self, "image", img)
    IN  IF img = None
        THEN Raise(s1, <<>>, "AttributeError")       \* None.width
        ELSE Return(SetAttr(s1, "image_scale",
                            ScaleFor(img.width, img.height)), <<>>, None)

\* the exception _prepare_image raises on this instance, "none" if it runs
PrepareFailure(self) ==
    IF ~HasAttr(self, "image") THEN "AttributeError"
    ELSE IF self.image = None THEN "AttributeError"
    ELSE IF ~HasAttr(self, "image_scale") THEN "AttributeError"
    ELSE "none"

\* size of the scaled grey copy _prepare_image hands to the classifier
ScaledSize(self) ==
    << self.image.width \div self.image_scale,
       self.image.height \div self.image_scale >>

HaarDetectObjects(cascade, size) ==
    [e |-> "HaarDetectObjects", cascade |-> cascade, size |-> size]

\* FaceDict as it would be if only the corner were mapped back
FaceDict_ScalesCornerOnly(raw, scale) ==
    [x |-> raw[1][1] * scale, y |-> raw[1][2] * scale,
     width |-> raw[1][3], height |-> raw[1][4],
     neighbors |-> raw[2]]

\* the dict detect_faces appends for one raw rectangle
FaceDict(raw, scale) ==
    [x |-> raw[1][1] * scale, y |-> raw[1][2] * scale,
     width |-> raw[1][3] * scale, height |-> raw[1][4] * scale,
     neighbors |-> raw[2]]

\* the list the loop iterates: frontal results, extended by the profile ones
CollectFaces(frontal, profile, include_profile_faces) ==
    IF include_profile_faces THEN frontal \o profile ELSE frontal

\* detect_faces as it would be if it answered "no faces" without an image
detect_faces_EmptyWithoutImage(self, include_profile_faces, frontal, profile) ==
    LET s1 == SetAttr(self, "_faces", <<>>)
    IN  IF PrepareFailure(s1) # "none"
        THEN Return(s1, <<>>, [kind |-> "faces", value |-> <<>>])
        ELSE LET faces == CollectFaces(frontal, profile, include_profile_faces)
                 dicts == [i \in 1..Len(faces) |->
                              FaceDict(faces[i], s1.image_scale)]
                 s2 == SetAttr(s1, "_faces", dicts)
                 evs == <<HaarDetectObjects("frontal", ScaledSize(s1))>> \o
                        (IF include_profile_faces
                         THEN <<HaarDetectObjects("profile", ScaledSize(s1))>>
                         ELSE <<>>)
             IN  Return(s2, evs, [kind |-> "faces", value |-> dicts])

\* detect_faces as it would be if it did not start from an empty list
detect_faces_Accumulating(self, include_profile_faces, frontal, profile) ==
    LET s1 == SetAttr(self, "_faces", self._faces)
    IN  IF PrepareFailure(s1) # "none"
        THEN Raise(s1, <<>>, PrepareFailure(s1))
        ELSE LET faces == CollectFaces(frontal, profile, include_profile_faces)
                 dicts == s1._faces \o
                          [i \in 1..Len(faces) |->
                              FaceDict(faces[i], s1.image_scale)]
                 s2 == SetAttr(s1, "_faces", dicts)
                 evs == <<HaarDetectObjects("frontal", ScaledSize(s1))>> \o
                        (IF include_profile_faces
                         THEN <<HaarDetectObjects("profile", ScaledSize(s1))>>
                         ELSE <<>>)
             IN  Return(s2, evs, [kind |-> "faces", value |-> dicts])

detect_faces(self, include_profile_faces, frontal, profile) ==
    LET s1 == SetAttr(self, "_faces", <<>>)
    IN  IF PrepareFailure(s1) # "none"
        THEN Raise(s1, <<>>, PrepareFailure(s1))
        ELSE LET faces == CollectFaces(frontal, profile, include_profile_faces)
                 dicts == [i \in 1..Len(faces) |->
                              FaceDict(faces[i], s1.image_scale)]
                 s2 == SetAttr(s1, "_faces", dicts)
                 evs == <<HaarDetectObjects("frontal", ScaledSize(s1))>> \o
                        (IF include_profile_faces
                         THEN <<HaarDetectObjects("profile", ScaledSize(s1))>>
                         ELSE <<>>)
             IN  Return(s2, evs, [kind |-> "faces", value |-> dicts])

----------------------------------------------------------------------------
(* FaceDetect *)

\* cv.LoadImage(file_path) either yields an image or raises IOError
image_from_file(self, loaded) ==
    IF loaded = None
    THEN Raise(self, <<>>, "IOError")
    ELSE load_image(self, loaded)

\* cv.CaptureFromCAM gives a capture or a false value; cv.QueryFrame gives
\* a frame or None
image_from_input(self, capture_ok, frame) ==
    IF capture_ok
    THEN LET o == load_image(self, frame)
         IN  IF o.exc # "none"
             THEN o
             ELSE Return(SetAttr(o.self, "capture", TRUE), <<>>, None)
    ELSE Return(self, <<>>, None)

Rectangle(face, rgb_border, width) ==
    [e |-> "Rectangle",
     pt1 |-> <<face.x, face.y>>,
     pt2 |-> <<face.x + face.width, face.y + face.height>>,
     color |-> rgb_border, thickness |-> width]

overlay_image(self, rgb_border, width, frontal) ==
    IF ~HasAttr(self, "_faces")
    THEN Raise(self, <<>>, "AttributeError")         \* self._faces
    ELSE LET d == IF self._faces = <<>>
                  THEN detect_faces(self, SCAN_FOR_PROFILES, frontal, <<>>)
                  ELSE Return(self, <<>>, None)
             s1 == d.self
             draws == [i \in 1..Len(s1._faces) |->
                          Rectangle(s1._faces[i], rgb_border, width)]
         IN  IF d.exc # "none" THEN d
             ELSE IF s1._faces # <<>> /\ s1.image = None
             THEN Raise(s1, d.events, "TypeError")   \* cv.Rectangle(None, ..)
             ELSE Return(SetAttr(s1, "is_overlayed", TRUE),
                         d.events \o draws,
                         [kind |-> "image", value |-> s1.image])

SaveImage(img) == [e |-> "SaveImage", image |-> img]

save_image(self, frontal) ==
    LET o == IF ~self.is_overlayed
             THEN overlay_image(self, DefaultBorder, DefaultWidth, frontal)
             ELSE Return(self, <<>>, None)
        s1 == o.self
    IN  IF o.exc # "none" THEN o
        ELSE IF ~HasAttr(s1, "image")
        THEN Raise(s1, o.events, "AttributeError")
        ELSE IF s1.image = None
        THEN Raise(s1, o.events, "TypeError")        \* cv.SaveImage(.., None)
        ELSE Return(s1, Append(o.events, SaveImage(s1.image)), None)

ShowImage(img) == [e |-> "ShowImage", image |-> img]

show_image(self) ==
    IF ~HasAttr(self, "image")
    THEN Raise(self, <<>>, "AttributeError")
    ELSE IF self.image = None
    THEN Raise(self, <<>>, "TypeError")              \* cv.ShowImage(.., None)
    ELSE Return(self, <<ShowImage(self.image)>>, None)

to_json(self) ==
    IF ~HasAttr(self, "_faces")
    THEN Raise(self, <<>>, "AttributeError")
    ELSE Return(self, <<>>, [kind |-> "json", value |-> self._faces])

----------------------------------------------------------------------------
(* __main__ *)

\* statement sequencing: n, the outcome of the next statement on what o
\* left behind, counts unless o raised
After(o, n) ==
    IF o.exc # "none" THEN o ELSE [n EXCEPT !.events = o.events \o @]

PrintJson(self) ==
    LET j == to_json(self)
    IN  IF j.exc # "none" THEN j
        ELSE Return(self, <<[e |-> "print", value |-> j.ret.value]>>, None)

\* one run of the script: args.input is given (use_input) or args.file is;
\* save, out and json tell which of the optional arguments are present
main(use_input, save, out, json, capture_ok, source, frontal, again) ==
    LET detector == NewFaceDetect
        loaded == IF use_input
                  THEN image_from_input(detector, capture_ok, source)
                  ELSE image_from_file(detector, source)
        detected == After(loaded,
                          detect_faces(loaded.self, SCAN_FOR_PROFILES,
                                       frontal, <<>>))
        overlayed == After(detected,
                           overlay_image(detected.self, DefaultBorder,
                                         DefaultWidth, again))
        printed == IF json
                   THEN After(overlayed, PrintJson(overlayed.self))
                   ELSE overlayed
        saved == IF save
                 THEN After(printed, save_image(printed.self, <<>>))
                 ELSE printed
        shown == IF out
                 THEN After(saved, show_image(saved.self))
                 ELSE saved
    IN  [shown EXCEPT !.ret = None]

----------------------------------------------------------------------------
(* Behaviour *)

Init ==
    /\ attrs = NewFaceDetect.attrs
    /\ image = NewFaceDetect.image
    /\ image_scale = NewFaceDetect.image_scale
    /\ _faces = NewFaceDetect._faces
    /\ is_overlayed = NewFaceDetect.is_overlayed
    /\ capture = NewFaceDetect.capture
    /\ call = [op |-> "__init__"]
    /\ pre = NewFaceDetect
    /\ events = <<>>
    /\ exc = "none"
    /\ ret = None

\* the call c, started on the instance start, had the outcome o
Apply(c, start, o) ==
    /\ attrs' = o.self.attrs
    /\ image' = o.self.image
    /\ image_scale' = o.self.image_scale
    /\ _faces' = o.self._faces
    /\ is_overlayed' = o.self.is_overlayed
    /\ capture' = o.self.capture
    /\ call' = c
    /\ pre' = start
    /\ events' = o.events
    /\ exc' = o.exc
    /\ ret' = o.ret

\* the instance is used by a program calling the classes, not by the script
InProgram == call.op # "main"

LoadImage ==
    /\ InProgram
    /\ \E img \in Images \cup {None} :
        Apply([op |-> "load_image", image |-> img], Self,
              load_image(Self, img))

DetectFaces ==
    /\ InProgram
    /\ \E inc \in BOOLEAN, frontal \in Matches :
      \E profile \in ProfileMatches(inc) :
        Apply([op |-> "detect_faces", include_profile_faces |-> inc,
               frontal |-> frontal, profile |-> profile], Self,
              detect_faces(Self, inc, frontal, profile))

ImageFromFile ==
    /\ InProgram
    /\ \E loaded \in Images \cup {None} :
        Apply([op |-> "image_from_file", loaded |-> loaded], Self,
              image_from_file(Self, loaded))

ImageFromInput ==
    /\ InProgram
    /\ \E capture_ok \in BOOLEAN :
      \E frame \in IF capture_ok THEN Images \cup {None} ELSE {None} :
        Apply([op |-> "image_from_input", capture_ok |-> capture_ok,
               frame |-> frame], Self,
              image_from_input(Self, capture_ok, frame))

OverlayImage ==
    /\ InProgram
    /\ \E args \in OverlayArgs, frontal \in FrontalMatches(Self._faces = <<>>) :
        Apply([op |-> "overlay_image", rgb_border |-> args[1],
               width |-> args[2], frontal |-> frontal], Self,
              overlay_image(Self, args[1], args[2], frontal))

SaveImageCall ==
    /\ InProgram
    /\ \E frontal \in FrontalMatches(~is_overlayed /\ Self._faces = <<>>) :
        Apply([op |-> "save_image", frontal |-> frontal], Self,
              save_image(Self, frontal))

ShowImageCall ==
    /\ InProgram
    /\ Apply([op |-> "show_image"], Self, show_image(Self))

ToJson ==
    /\ InProgram
    /\ Apply([op |-> "to_json"], Self, to_json(Self))

\* the script runs in a process of its own, on a detector it constructs
Main ==
    /\ call.op = "__init__"
    /\ \E use_input \in BOOLEAN, save \in BOOLEAN, out \in BOOLEAN,
          json \in BOOLEAN, capture_ok \in BOOLEAN :
       \E source \in IF use_input /\ ~capture_ok THEN {None}
                     ELSE Images \cup {None} :
       \E frontal \in FrontalMatches(source # None) :
       \E again \in FrontalMatches(source # None /\ frontal = <<>>) :
           /\ ~use_input => capture_ok
           /\ Apply([op |-> "main", use_input |-> use_input, save |-> save,
                     out |-> out, json |-> json, capture_ok |-> capture_ok,
                     source |-> source, frontal |-> frontal,
                     again |-> again], NewFaceDetect,
                    main(use_input, save, out, json, capture_ok, source,
                         frontal, again))

Next ==
    \/ LoadImage
    \/ DetectFaces
    \/ ImageFromFile
    \/ ImageFromInput
    \/ OverlayImage
    \/ SaveImageCall
    \/ ShowImageCall
    \/ ToJson
    \/ Main

Spec == Init /\ [][Next]_vars

----------------------------------------------------------------------------
(* Observations on the last call *)

Max(a, b) == IF a > b THEN a ELSE b

Returned == exc = "none"

\* positions in evs of the events of one kind
At(evs, kind) == { i \in DOMAIN evs : evs[i].e = kind }

\* a detection pass runs the frontal cascade once
DetectionPasses(evs) ==
    Cardinality({ i \in At(evs, "HaarDetectObjects") :
                     evs[i].cascade = "frontal" })

ProfilePasses(evs) ==
    Cardinality({ i \in At(evs, "HaarDetectObjects") :
                     evs[i].cascade = "profile" })

\* every event of kind a comes before every event of kind b
Precedes(evs, a, b) ==
    \A i \in At(evs, a), j \in At(evs, b) : i < j

\* the face entry the documentation gives for a raw rectangle
Scaled(raw, scale) ==
    [x |-> raw[1][1] * scale, y |-> raw[1][2] * scale,
     width |-> raw[1][3] * scale, height |-> raw[1][4] * scale,
     neighbors |-> raw[2]]

Range(seq) == { seq[i] : i \in DOMAIN seq }

WasLoaded == HasAttr(pre, "image") /\ pre.image \in Images

----------------------------------------------------------------------------
(* C1 *)

\* C1: after load_image(image) returns, the stored scale factor is >= 1 and
\* max(width, height) / scale factor <= 1000, also when the larger side is
\* not a multiple of 1000.
C1_ScaleKeepsImageWithin1000 ==
    (call.op = "load_image" /\ Returned) =>
        /\ image_scale >= 1
        /\ Max(image.width, image.height) <= 1000 * image_scale

----------------------------------------------------------------------------
(* C2 *)

\* C2: every raw rectangle ((x, y, w, h), n) the classifier returns during a
\* detect_faces call is in the returned list with x, y, width and height
\* multiplied by the scale factor and neighbors unchanged; a 2000x1000 image
\* has scale factor 2 and reports (10, 5, 40, 40, 3) as
\* {x:20, y:10, width:80, height:80, neighbors:3}.
C2_RawRectanglesReportedScaled ==
    (call.op = "detect_faces" /\ Returned) =>
        /\ \A raw \in Range(call.frontal) \cup Range(call.profile) :
              Scaled(raw, image_scale) \in Range(ret.value)
        /\ (image = IplImage(2000, 1000)
              /\ <<<<10, 5, 40, 40>>, 3>> \in Range(call.frontal)) =>
              [x |-> 20, y |-> 10, width |-> 80, height |-> 80,
               neighbors |-> 3] \in Range(ret.value)

C2_Witness ==
    /\ call.op = "detect_faces" /\ Returned
    /\ image = IplImage(2000, 1000)
    /\ <<<<10, 5, 40, 40>>, 3>> \in Range(call.frontal)
    /\ call.include_profile_faces /\ call.profile # <<>>

----------------------------------------------------------------------------
(* C3 *)

\* C3: overlay_image() on an instance with a loaded image on which no
\* detection has been run yet runs exactly one detection pass, without the
\* profile cascade, before any rectangle is drawn, and completes with
\* is_overlayed true.
C3_OverlayDetectsOnceFirst ==
    (call.op = "overlay_image" /\ WasLoaded /\ ~HasAttr(pre, "_faces")) =>
        /\ Returned
        /\ DetectionPasses(events) = 1
        /\ ProfilePasses(events) = 0
        /\ Precedes(events, "HaarDetectObjects", "Rectangle")
        /\ is_overlayed

----------------------------------------------------------------------------
(* C4 *)

\* C4: once the instance is overlayed, a later overlay_image call runs no
\* detection pass, whatever the stored face list is, the empty one included.
C4_NoDetectionOnceOverlayed ==
    (call.op = "overlay_image" /\ pre.is_overlayed) =>
        DetectionPasses(events) = 0

----------------------------------------------------------------------------
(* C5 *)

\* C5: save_image on an instance with a loaded image that was never
\* overlayed first overlays it with the defaults, drawing a rectangle for
\* every detected face, and then writes the image; on an overlayed instance
\* it writes without overlaying again; the write comes after is_overlayed
\* is true.
C5_SaveOverlaysThenWrites ==
    (call.op = "save_image" /\ WasLoaded) =>
        /\ Returned
        /\ is_overlayed
        /\ Cardinality(At(events, "SaveImage")) = 1
        /\ Precedes(events, "Rectangle", "SaveImage")
        /\ IF pre.is_overlayed
           THEN events = <<SaveImage(image)>>
           ELSE Cardinality(At(events, "Rectangle")) = Len(_faces)

----------------------------------------------------------------------------
(* C6 *)

NeverLoaded == ~HasAttr(pre, "image")

\* C6 as stated: detect_faces on an instance on which load_image was never
\* called fails with NoImageLoadedError.
C6_FailsWithNoImageLoadedError ==
    (call.op = "detect_faces" /\ NeverLoaded) => exc = "NoImageLoadedError"

\* C6 amended: detect_faces on an instance on which load_image was never
\* called raises AttributeError, for both values of include_profile_faces:
\* it returns no result and runs no cascade.
C6_FailsWithAttributeError ==
    (call.op = "detect_faces" /\ NeverLoaded) =>
        /\ exc = "AttributeError"
        /\ ret = None
        /\ events = <<>>

C6_Witness ==
    /\ call.op = "detect_faces" /\ NeverLoaded
    /\ call.include_profile_faces
    /\ ~Returned

----------------------------------------------------------------------------
(* C7 *)

\* C7: image_from_input never returns normally when the capture device
\* cannot be opened or yields no frame.
C7_DeviceFailureIsRaised ==
    (call.op = "image_from_input"
        /\ (~call.capture_ok \/ call.frame = None)) => ~Returned

----------------------------------------------------------------------------
(* C8 *)

----------------------------------------------------------------------------
(* C9 *)

\* C9: a run of the script that completes runs exactly one detection pass,
\* for every combination of --save, --out and --json and every classifier
\* outcome; it precedes the drawing, which precedes the JSON print, the save
\* and the window display.
C9_ScriptDetectsOnce ==
    (call.op = "main" /\ Returned) =>
        /\ DetectionPasses(events) = 1
        /\ Precedes(events, "HaarDetectObjects", "Rectangle")
        /\ Precedes(events, "Rectangle", "print")
        /\ Precedes(events, "Rectangle", "SaveImage")
        /\ Precedes(events, "Rectangle", "ShowImage")

----------------------------------------------------------------------------
(* C10 *)

\* C10: load_image changes only the stored image and the scale factor, not
\* the stored face list nor is_overlayed; so on an image loaded after an
\* overlay, save_image writes it without overlay or detection, and
\* overlay_image draws the non-empty face list found on the earlier image.
C10_LoadKeepsFacesAndOverlayed ==
    /\ call.op = "load_image" =>
          /\ _faces = pre._faces
          /\ is_overlayed = pre.is_overlayed
          /\ capture = pre.capture
          /\ attrs \ {"image", "image_scale"}
                = pre.attrs \ {"image", "image_scale"}
    /\ (call.op = "save_image" /\ WasLoaded /\ pre.is_overlayed) =>
          events = <<SaveImage(pre.image)>>
    /\ (call.op = "overlay_image" /\ WasLoaded /\ pre._faces # <<>>) =>
          events = [i \in 1..Len(pre._faces) |->
                       Rectangle(pre._faces[i], call.rgb_border, call.width)]

C10_Witness ==
    /\ call.op = "load_image" /\ Returned
    /\ WasLoaded /\ pre.image # image
    /\ pre.is_overlayed /\ is_overlayed
    /\ _faces # <<>>

====
